---- MODULE Spec2Model ----
(***************************************************************************)
(* Model of src/src/pages/Analysis.tsx: the Analysis component's state     *)
(* (useState cells), the two API helpers parseWebsite and fetchAnalysis,   *)
(* and the handleAnalyze submit handler with its parallel fan-out.         *)
(***************************************************************************)
EXTENDS Integers, Sequences, FiniteSets, TLC

(* ---------- bounds ---------- *)

\* longest answer text whose coercion is examined
MaxTextLen == 5

\* number of form submissions (handleAnalyze invocations) explored
MaxSubmits == 2

(* ---------- the step catalog, Analysis.tsx:326-334 ---------- *)

analysisSteps ==
  << [key |-> "foodPreference",   stage |-> "2/6 - Analyzing food category..."],
     [key |-> "healthGrade",      stage |-> "3/6 - Calculating health grade..."],
     [key |-> "riskAssessment",   stage |-> "4/6 - Assessing health risks..."],
     [key |-> "allergenAnalysis", stage |-> "5/6 - Checking for allergens..."],
     [key |-> "nutritionFacts",   stage |-> "6/6 - Extracting nutrition facts..."] >>

StepKeys == { analysisSteps[i].key : i \in 1..Len(analysisSteps) }

\* const totalSteps = analysisSteps.length + 1
totalSteps == Len(analysisSteps) + 1

ParsingStage == "1/6 - Parsing website content..."

(* ---------- progress: IEEE-754 double arithmetic ---------- *)
(* A progress value is written [k |-> n, d |-> e] and denotes the real     *)
(* number  n * 100/6  +  e * u,  where u = 2^-48 / 3.  Every double that   *)
(* the component can hold is of this form with a small e, and 0 and 100    *)
(* are [k |-> 0, d |-> 0] and [k |-> 6, d |-> 0].  In these units the      *)
(* doubles of the binade [16*2^j, 32*2^j) are the multiples of 3 * 2^j.    *)

Zero    == [k |-> 0, d |-> 0]
Hundred == [k |-> totalSteps, d |-> 0]

Pow2(j) == IF j = 0 THEN 1 ELSE IF j = 1 THEN 2 ELSE IF j = 2 THEN 4 ELSE 8

\* binade of a value near n shares: 16.67 | 33.3, 50 | 66.7, 83.3, 100, 116.7
Binade(n) == IF n <= 1 THEN 0 ELSE IF n <= 3 THEN 1 ELSE 2

\* residue of the exact value (n, e) modulo 3 * 2^j units: n shares are
\* 50 * n * 2^48 units, which is 2n modulo 3 and 0 modulo 2^j
Residue(n, e, j) ==
  CHOOSE x \in 0..(3 * Pow2(j) - 1) :
      /\ x % 3 = (2 * n + e) % 3
      /\ x % Pow2(j) = e % Pow2(j)

\* round-to-nearest, ties-to-even, of the exact value (n, e) to a double
RoundDouble(n, e) ==
  IF n = 0 THEN [k |-> 0, d |-> e]
  ELSE LET j == Binade(n)
           U == 3 * Pow2(j)
           x == Residue(n, e, j)
           even == Residue(n, e, j + 1) = x
       IN  IF 2 * x < U \/ (2 * x = U /\ even)
             THEN [k |-> n, d |-> e - x]
             ELSE [k |-> n, d |-> e + (U - x)]

\* a + b on doubles
FloatAdd(a, b) == RoundDouble(a.k + b.k, a.d + b.d)

\* 100 / totalSteps: the double nearest to one share
Share == RoundDouble(1, 0)

\* a <= b on doubles (the deviations are far smaller than a share)
Leq(a, b) == a.k < b.k \/ (a.k = b.k /\ a.d <= b.d)

(* ---------- API helpers ---------- *)

\* what POST /parse-website can answer: fetch rejects (network), or a
\* response with an ok flag and a body
ParseResponses ==
  { [net |-> FALSE, ok |-> FALSE, body |-> "none"] } \cup
  { [net |-> TRUE, ok |-> o, body |-> b] :
      o \in BOOLEAN,
      b \in {"notJson", "jsonNull", "jsonNoError", "jsonErrorMsg", "jsonErrorEmpty"} }

\* variant: an ok response resolves without its body being read as JSON
parseWebsiteBodyUnread(resp) ==
  IF ~resp.net THEN [status |-> "rejected", message |-> "Failed to fetch"]
  ELSE IF ~resp.ok THEN
    CASE resp.body = "notJson" ->
           [status |-> "rejected", message |-> "Failed to parse website content."]
      [] resp.body = "jsonNull" ->
           [status |-> "rejected", message |-> "TypeError: errorData is null"]
      [] resp.body = "jsonErrorMsg" ->
           [status |-> "rejected", message |-> "server error message"]
      [] OTHER ->
           [status |-> "rejected", message |-> ""]
  ELSE [status |-> "fulfilled", message |-> ""]

\* parseWebsite(url): resolves or rejects with an Error message
parseWebsite(resp) ==
  IF ~resp.net THEN [status |-> "rejected", message |-> "Failed to fetch"]
  ELSE IF ~resp.ok THEN
    \* errorData = await response.json().catch(() => ({error: fallback}))
    CASE resp.body = "notJson" ->
           [status |-> "rejected", message |-> "Failed to parse website content."]
      [] resp.body = "jsonNull" ->
           [status |-> "rejected", message |-> "TypeError: errorData is null"]
      [] resp.body = "jsonErrorMsg" ->
           [status |-> "rejected", message |-> "server error message"]
      [] OTHER ->   \* new Error(undefined) and new Error('') have message ''
           [status |-> "rejected", message |-> ""]
  ELSE
    \* return response.json()
    IF resp.body = "notJson"
      THEN [status |-> "rejected", message |-> "SyntaxError: Unexpected token"]
      ELSE [status |-> "fulfilled", message |-> ""]

(* ---------- fetchAnalysis: answers, the regular expression, JSON ---------- *)
(* Text is a sequence of one-character tokens: "{" "}" "," and " " stand   *)
(* for themselves, "k" for a member name with its colon, "1" for a scalar  *)
(* value and "p" for any other character.                                  *)

Chars == {"{", "}", "k", "1", ",", " ", "p"}

\* a JavaScript value held by the component: an object (its JSON text
\* without whitespace), null, or nothing
NoValue   == [type |-> "none",   json |-> << >>]
NullValue == [type |-> "null",   json |-> << >>]
ObjectValue(t) == [type |-> "object", json |-> t]

IsWs(c) == c = " "
NotWs(c) == ~IsWs(c)
StripWs(s) == SelectSeq(s, NotWs)

RECURSIVE IsJsonObject(_), IsJsonMembers(_), IsJsonValue(_)
\* value := 1 | object
IsJsonValue(t) == t = << "1" >> \/ IsJsonObject(t)
\* members := k value | k value , members
IsJsonMembers(t) ==
  /\ Len(t) >= 2
  /\ t[1] = "k"
  /\ \/ IsJsonValue(SubSeq(t, 2, Len(t)))
     \/ \E i \in 3..(Len(t) - 1) :
          /\ t[i] = ","
          /\ IsJsonValue(SubSeq(t, 2, i - 1))
          /\ IsJsonMembers(SubSeq(t, i + 1, Len(t)))
\* object := { } | { members }
IsJsonObject(t) ==
  /\ Len(t) >= 2
  /\ t[1] = "{"
  /\ t[Len(t)] = "}"
  /\ (Len(t) = 2 \/ IsJsonMembers(SubSeq(t, 2, Len(t) - 1)))

\* JSON.parse(text): whitespace between tokens is skipped; a text that is
\* not one JSON value throws
JSONParse(text) ==
  LET t == StripWs(text)
  IN  IF IsJsonObject(t) THEN [ok |-> TRUE, value |-> ObjectValue(t)]
      ELSE IF IsJsonValue(t) THEN [ok |-> TRUE, value |-> [type |-> "number", json |-> t]]
      ELSE [ok |-> FALSE, value |-> NoValue]

\* variant: the lazy pattern /\{[\s\S]*?\}/, which stops at the first "}"
RegexMatchLazy(text) ==
  LET opens  == { i \in 1..Len(text) : text[i] = "{" }
      first  == CHOOSE i \in opens : \A j \in opens : i <= j
      closes == { i \in 1..Len(text) : text[i] = "}" /\ i > first }
      last   == CHOOSE i \in closes : \A j \in closes : i <= j
  IN  IF opens = {} THEN [found |-> FALSE, text |-> << >>]
      ELSE IF closes = {} THEN [found |-> FALSE, text |-> << >>]
      ELSE [found |-> TRUE, text |-> SubSeq(text, first, last)]

\* text.match(/\{[\s\S]*\}/): the leftmost "{" through the last "}" after
\* it, or no match
RegexMatch(text) ==
  LET opens  == { i \in 1..Len(text) : text[i] = "{" }
      first  == CHOOSE i \in opens : \A j \in opens : i <= j
      closes == { i \in 1..Len(text) : text[i] = "}" /\ i > first }
      last   == CHOOSE i \in closes : \A j \in closes : j <= i
  IN  IF opens = {} THEN [found |-> FALSE, text |-> << >>]
      ELSE IF closes = {} THEN [found |-> FALSE, text |-> << >>]
      ELSE [found |-> TRUE, text |-> SubSeq(text, first, last)]

\* an answer of POST /llm-call: fetch rejects (net = FALSE), or a response
\* with an ok flag and a body; kind says what the body is and text carries
\* the answer's characters (a string answer) or JSON text (an object answer)
LlmResponse(net, ok, kind, text) ==
  [net |-> net, ok |-> ok, kind |-> kind, text |-> text]

Fulfilled(v) == [status |-> "fulfilled", value |-> v, reason |-> ""]
Rejected(r)  == [status |-> "rejected", value |-> NoValue, reason |-> r]

InvalidJsonFormat == "Invalid JSON format received from the server."

\* variant: without the throw after a failed match the function returns
\* undefined
fetchAnalysisNoThrow(resp) ==
  IF ~resp.net THEN Rejected("Failed to fetch")
  ELSE IF ~resp.ok THEN Rejected("API call failed: ")
  ELSE IF resp.kind = "notJson" THEN Rejected("SyntaxError: Unexpected token")
  ELSE IF resp.kind = "dataNull" THEN Rejected(InvalidJsonFormat)
  ELSE IF resp.kind = "answerObject" THEN Fulfilled(ObjectValue(resp.text))
  ELSE IF resp.kind = "answerNull" THEN Fulfilled(NullValue)
  ELSE IF resp.kind = "answerString" THEN
    LET jsonMatch == RegexMatch(resp.text)
    IN  IF jsonMatch.found
          THEN LET parsed == JSONParse(jsonMatch.text)
               IN  IF parsed.ok THEN Fulfilled(parsed.value)
                   ELSE Rejected(InvalidJsonFormat)
          ELSE Fulfilled([type |-> "undefined", json |-> << >>])
  ELSE Rejected(InvalidJsonFormat)

\* fetchAnalysis(query, expectedFormat): the settled promise
fetchAnalysis(resp) ==
  IF ~resp.net THEN Rejected("Failed to fetch")
  ELSE IF ~resp.ok THEN Rejected("API call failed: ")
  ELSE IF resp.kind = "notJson" THEN Rejected("SyntaxError: Unexpected token")
  \* inside try: any throw becomes the Invalid-JSON error
  ELSE IF resp.kind = "dataNull" THEN Rejected(InvalidJsonFormat)
  ELSE IF resp.kind = "answerObject" THEN Fulfilled(ObjectValue(resp.text))
  ELSE IF resp.kind = "answerNull" THEN Fulfilled(NullValue)
  ELSE IF resp.kind = "answerString" THEN
    LET jsonMatch == RegexMatch(resp.text)
    IN  IF jsonMatch.found
          THEN LET parsed == JSONParse(jsonMatch.text)
               IN  IF parsed.ok THEN Fulfilled(parsed.value)
                   ELSE Rejected(InvalidJsonFormat)
          ELSE Rejected(InvalidJsonFormat)
  \* answer missing or a number: data.answer.match is not callable
  ELSE Rejected(InvalidJsonFormat)

(* ---------- the answers the environment is taken to give ---------- *)

\* string answers of POST /llm-call tried in the pipeline
SampleTexts ==
  { << "p" >>,
    << "{", "}" >>,
    << "p", "{", " ", "k", "1", "}", "p" >>,
    << "{", "k", "}" >>,
    << "}", "{" >> }

LlmResponses ==
  { LlmResponse(FALSE, FALSE, "none", << >>),
    LlmResponse(TRUE, FALSE, "notJson", << >>),
    LlmResponse(TRUE, TRUE, "notJson", << >>),
    LlmResponse(TRUE, TRUE, "dataNull", << >>),
    LlmResponse(TRUE, TRUE, "answerMissing", << >>),
    LlmResponse(TRUE, TRUE, "answerNull", << >>),
    LlmResponse(TRUE, TRUE, "answerObject", << "{", "k", "1", "}" >>) } \cup
  { LlmResponse(TRUE, TRUE, "answerString", t) : t \in SampleTexts }

(* ---------- component state ---------- *)

VARIABLES
  url,           \* useState(''): the input field; "" or a product URL
  isLoading,     \* useState(false)
  loadingStage,  \* useState('')
  progress,      \* useState(0), a double
  error,         \* useState(null): "null" or a message
  results,       \* useState(null): a function from step keys to values, or NoResults
  pc,            \* where handleAnalyze is: "idle", "parsing" (awaiting parseWebsite),
                 \* "analyzing" (awaiting Promise.allSettled)
  parseResponse, \* the answer of /parse-website on its way to parseWebsite, or NoResponse
  prereq,        \* the promise of parseWebsite(url): "none", "pending", "fulfilled", "rejected"
  promises,      \* analysisPromises: key -> "none" | pending | settled promise
  parseCalls,    \* requests sent to /parse-website by the latest run
  llmCalls,      \* key -> requests sent to /llm-call for that step by the latest run
  outcome,       \* how the latest handleAnalyze invocation ended
  submits,       \* number of handleAnalyze invocations so far
  answer         \* the /llm-call answer whose coercion is examined, or NoAnswer

vars == << url, isLoading, loadingStage, progress, error, results, pc,
           parseResponse, prereq, promises, parseCalls, llmCalls, outcome,
           submits, answer >>

Null == "null"
NoResponse == [net |-> FALSE, ok |-> FALSE, body |-> "noResponse"]
NoAnswer == LlmResponse(FALSE, FALSE, "noAnswer", << >>)
\* a report maps every step key to its value, NoValue meaning the key is
\* absent; results === null is NoResults
EmptyReport == [k \in StepKeys |-> NoValue]
NoResults == [present |-> FALSE, report |-> EmptyReport]
Report(r) == [present |-> TRUE, report |-> r]
\* Object.keys(report)
ObjectKeys(r) == { k \in StepKeys : r[k].type # "none" }

NotStarted == [status |-> "none", value |-> NoValue, reason |-> ""]
Pending    == [status |-> "pending", value |-> NoValue, reason |-> ""]

Init ==
  /\ url = ""
  /\ isLoading = FALSE
  /\ loadingStage = ""
  /\ progress = Zero
  /\ error = Null
  /\ results = NoResults
  /\ pc = "idle"
  /\ parseResponse = NoResponse
  /\ prereq = "none"
  /\ promises = [k \in StepKeys |-> NotStarted]
  /\ parseCalls = 0
  /\ llmCalls = [k \in StepKeys |-> 0]
  /\ outcome = "none"
  /\ submits = 0
  /\ answer = NoAnswer

Urls == {"", "https://example.com/p1"}

\* onChange={(e) => setUrl(e.target.value)}; the input is disabled while loading
SetUrl(u) ==
  /\ ~isLoading
  /\ u # url
  /\ url' = u
  /\ UNCHANGED << answer, isLoading, loadingStage, progress, error, results, pc,
                  parseResponse, prereq, promises, parseCalls, llmCalls,
                  outcome, submits >>

\* variant: the early return is missing, so the run starts after setError
SubmitEmptyNoReturn ==
  /\ ~isLoading
  /\ pc = "idle"
  /\ submits < MaxSubmits
  /\ url = ""
  /\ isLoading' = TRUE
  /\ error' = Null
  /\ results' = NoResults
  /\ progress' = Zero
  /\ loadingStage' = ParsingStage
  /\ parseCalls' = 1
  /\ llmCalls' = [k \in StepKeys |-> 0]
  /\ promises' = [k \in StepKeys |-> NotStarted]
  /\ prereq' = "pending"
  /\ pc' = "parsing"
  /\ outcome' = "running"
  /\ submits' = submits + 1
  /\ UNCHANGED << answer, url, parseResponse >>

\* handleAnalyze with an empty url: setError and return
SubmitEmpty ==
  /\ ~isLoading
  /\ pc = "idle"
  /\ submits < MaxSubmits
  /\ url = ""
  /\ error' = "Please enter a product URL."
  /\ outcome' = "InvalidInput"
  /\ submits' = submits + 1
  /\ UNCHANGED << answer, url, isLoading, loadingStage, progress, results, pc,
                  parseResponse, prereq, promises, parseCalls, llmCalls >>

\* variant: setProgress(0) is missing
SubmitUrlNoProgressReset ==
  /\ ~isLoading
  /\ pc = "idle"
  /\ submits < MaxSubmits
  /\ url # ""
  /\ isLoading' = TRUE
  /\ error' = Null
  /\ results' = NoResults
  /\ loadingStage' = ParsingStage
  /\ parseCalls' = 1
  /\ llmCalls' = [k \in StepKeys |-> 0]
  /\ promises' = [k \in StepKeys |-> NotStarted]
  /\ prereq' = "pending"
  /\ pc' = "parsing"
  /\ outcome' = "running"
  /\ submits' = submits + 1
  /\ UNCHANGED << answer, url, parseResponse, progress >>

\* variant: the submit button is not disabled while a run is loading
SubmitUrlWhileLoading ==
  /\ submits < MaxSubmits
  /\ url # ""
  /\ isLoading' = TRUE
  /\ error' = Null
  /\ results' = NoResults
  /\ progress' = Zero
  /\ loadingStage' = ParsingStage
  /\ parseCalls' = 1
  /\ llmCalls' = [k \in StepKeys |-> 0]
  /\ promises' = [k \in StepKeys |-> NotStarted]
  /\ prereq' = "pending"
  /\ pc' = "parsing"
  /\ outcome' = "running"
  /\ submits' = submits + 1
  /\ UNCHANGED << answer, url, parseResponse >>

\* variant: setError(null) and setResults(null) are missing
SubmitUrlStale ==
  /\ ~isLoading
  /\ pc = "idle"
  /\ submits < MaxSubmits
  /\ url # ""
  /\ isLoading' = TRUE
  /\ progress' = Zero
  /\ loadingStage' = ParsingStage
  /\ parseCalls' = 1
  /\ llmCalls' = [k \in StepKeys |-> 0]
  /\ promises' = [k \in StepKeys |-> NotStarted]
  /\ prereq' = "pending"
  /\ pc' = "parsing"
  /\ outcome' = "running"
  /\ submits' = submits + 1
  /\ UNCHANGED << answer, url, parseResponse, error, results >>

\* handleAnalyze with a url, up to its first await: the state is reset, the
\* stage label set and the request to /parse-website sent
SubmitUrl ==
  /\ ~isLoading
  /\ pc = "idle"
  /\ submits < MaxSubmits
  /\ url # ""
  /\ isLoading' = TRUE
  /\ error' = Null
  /\ results' = NoResults
  /\ progress' = Zero
  /\ loadingStage' = ParsingStage
  /\ parseCalls' = 1
  /\ llmCalls' = [k \in StepKeys |-> 0]
  /\ promises' = [k \in StepKeys |-> NotStarted]
  /\ prereq' = "pending"
  /\ pc' = "parsing"
  /\ outcome' = "running"
  /\ submits' = submits + 1
  /\ UNCHANGED << answer, url, parseResponse >>

\* analysisSteps.map(...) runs each callback up to its await, in catalog
\* order: every callback writes its stage label
RECURSIVE MapStages(_, _)
MapStages(i, stage) ==
  IF i > Len(analysisSteps) THEN stage
  ELSE MapStages(i + 1, analysisSteps[i].stage)

\* err.message || 'An unknown error occurred.'
ErrorText(message) == IF message # "" THEN message ELSE "An unknown error occurred."

\* the server (or the network) answers the request to /parse-website
ParseRespond(resp) ==
  /\ pc = "parsing"
  /\ parseResponse = NoResponse
  /\ parseResponse' = resp
  /\ UNCHANGED << answer, url, isLoading, loadingStage, progress, error, results, pc,
                  prereq, promises, parseCalls, llmCalls, outcome, submits >>

\* parseWebsite resolved: progress is set to one share and the fan-out is
\* launched, which sends the five requests to /llm-call
ParseFulfilled ==
  /\ pc = "parsing"
  /\ parseResponse # NoResponse
  /\ parseWebsite(parseResponse).status = "fulfilled"
  /\ parseResponse' = NoResponse
  /\ prereq' = "fulfilled"
  /\ progress' = Share
  /\ loadingStage' = MapStages(1, loadingStage)
  /\ promises' = [k \in StepKeys |-> Pending]
  /\ llmCalls' = [k \in StepKeys |-> llmCalls[k] + 1]
  /\ pc' = "analyzing"
  /\ UNCHANGED << answer, url, isLoading, error, results, parseCalls, outcome, submits >>

\* variant: the rejection is reported but the fan-out is launched all the same
ParseRejectedFanOut ==
  /\ pc = "parsing"
  /\ parseResponse # NoResponse
  /\ parseWebsite(parseResponse).status = "rejected"
  /\ parseResponse' = NoResponse
  /\ prereq' = "rejected"
  /\ error' = ErrorText(parseWebsite(parseResponse).message)
  /\ promises' = [k \in StepKeys |-> Pending]
  /\ llmCalls' = [k \in StepKeys |-> llmCalls[k] + 1]
  /\ pc' = "analyzing"
  /\ UNCHANGED << answer, url, isLoading, loadingStage, progress, results, parseCalls,
                  outcome, submits >>

\* parseWebsite rejected: catch sets the error, finally clears isLoading
ParseRejected ==
  /\ pc = "parsing"
  /\ parseResponse # NoResponse
  /\ parseWebsite(parseResponse).status = "rejected"
  /\ parseResponse' = NoResponse
  /\ prereq' = "rejected"
  /\ error' = ErrorText(parseWebsite(parseResponse).message)
  /\ isLoading' = FALSE
  /\ pc' = "idle"
  /\ outcome' = "failed"
  /\ UNCHANGED << answer, url, loadingStage, progress, results, promises, parseCalls,
                  llmCalls, submits >>

\* variant: the stage label is written after the await, when the step completes
StepFulfilledLabels(key, resp) ==
  /\ pc = "analyzing"
  /\ promises[key].status = "pending"
  /\ fetchAnalysis(resp).status = "fulfilled"
  /\ loadingStage' =
       analysisSteps[CHOOSE i \in 1..Len(analysisSteps) : analysisSteps[i].key = key].stage
  /\ progress' = FloatAdd(progress, Share)
  /\ promises' = [promises EXCEPT ![key] = fetchAnalysis(resp)]
  /\ UNCHANGED << answer, url, isLoading, error, results, pc,
                  parseResponse, prereq, parseCalls, llmCalls, outcome, submits >>

\* one step's fetchAnalysis resolved: the callback adds a share to progress
\* and its promise fulfils with { [step.key]: result }
StepFulfilled(key, resp) ==
  /\ pc = "analyzing"
  /\ promises[key].status = "pending"
  /\ fetchAnalysis(resp).status = "fulfilled"
  /\ progress' = FloatAdd(progress, Share)
  /\ promises' = [promises EXCEPT ![key] = fetchAnalysis(resp)]
  /\ UNCHANGED << answer, url, isLoading, loadingStage, error, results, pc,
                  parseResponse, prereq, parseCalls, llmCalls, outcome, submits >>

\* variant: a rejected call is sent again and the step keeps waiting
StepRejectedRetry(key, resp) ==
  /\ pc = "analyzing"
  /\ promises[key].status = "pending"
  /\ fetchAnalysis(resp).status = "rejected"
  /\ llmCalls[key] < 2
  /\ llmCalls' = [llmCalls EXCEPT ![key] = llmCalls[key] + 1]
  /\ UNCHANGED << answer, url, isLoading, loadingStage, progress, error, results,
                  pc, parseResponse, prereq, promises, parseCalls, outcome, submits >>

\* variant: the share is added when the step settles, also on rejection
StepRejectedCounted(key, resp) ==
  /\ pc = "analyzing"
  /\ promises[key].status = "pending"
  /\ fetchAnalysis(resp).status = "rejected"
  /\ progress' = FloatAdd(progress, Share)
  /\ promises' = [promises EXCEPT ![key] = fetchAnalysis(resp)]
  /\ UNCHANGED << answer, url, isLoading, loadingStage, error, results, pc,
                  parseResponse, prereq, parseCalls, llmCalls, outcome, submits >>

\* one step's fetchAnalysis rejected: the callback's promise rejects
StepRejected(key, resp) ==
  /\ pc = "analyzing"
  /\ promises[key].status = "pending"
  /\ fetchAnalysis(resp).status = "rejected"
  /\ promises' = [promises EXCEPT ![key] = fetchAnalysis(resp)]
  /\ UNCHANGED << answer, url, isLoading, loadingStage, progress, error, results, pc,
                  parseResponse, prereq, parseCalls, llmCalls, outcome, submits >>

\* variant: Promise.all, which settles at the first rejection
AllSettledShortCircuit ==
  \/ \E k \in StepKeys : promises[k].status = "rejected"
  \/ \A k \in StepKeys : promises[k].status = "fulfilled"

\* Promise.allSettled(analysisPromises) has resolved
AllSettled == \A k \in StepKeys : promises[k].status \in {"fulfilled", "rejected"}

\* variant: the reducer returns result.value without spreading acc, so only
\* the last fulfilled step in catalog order survives
finalResultsNoSpread ==
  LET fulfilled == { i \in 1..Len(analysisSteps) :
                       promises[analysisSteps[i].key].status = "fulfilled" }
  IN  [k \in StepKeys |->
         IF /\ promises[k].status = "fulfilled"
            /\ \A i \in fulfilled :
                 analysisSteps[i].key = k \/ \E j \in fulfilled : j > i
           THEN promises[k].value ELSE NoValue]

\* settledResults.reduce(...): the values of the fulfilled promises
finalResults ==
  [k \in StepKeys |-> IF promises[k].status = "fulfilled"
                        THEN promises[k].value ELSE NoValue]

AllStepsFailed == "All analysis steps failed. Please check the server logs."

\* variant: a rejected step's reason is rethrown to the catch block
JoinRethrow ==
  /\ pc = "analyzing"
  /\ AllSettled
  /\ Cardinality(ObjectKeys(finalResults)) # 0
  /\ IF \E k \in StepKeys : promises[k].status = "rejected"
       THEN /\ error' = ErrorText(promises[CHOOSE k \in StepKeys :
                                    promises[k].status = "rejected"].reason)
            /\ outcome' = "failed"
            /\ UNCHANGED << results, progress >>
       ELSE /\ results' = Report(finalResults)
            /\ progress' = Hundred
            /\ outcome' = "success"
            /\ UNCHANGED error
  /\ isLoading' = FALSE
  /\ pc' = "idle"
  /\ UNCHANGED << answer, url, loadingStage, parseResponse, prereq, promises,
                  parseCalls, llmCalls, submits >>

\* Promise.allSettled resolved and the merge has at least one key
JoinSuccess ==
  /\ pc = "analyzing"
  /\ AllSettled
  /\ Cardinality(ObjectKeys(finalResults)) # 0
  /\ results' = Report(finalResults)
  /\ progress' = Hundred
  /\ isLoading' = FALSE
  /\ pc' = "idle"
  /\ outcome' = "success"
  /\ UNCHANGED << answer, url, loadingStage, error, parseResponse, prereq, promises,
                  parseCalls, llmCalls, submits >>

\* variant: the finally block is missing, so isLoading stays set after the throw
JoinEmptyNoFinally ==
  /\ pc = "analyzing"
  /\ AllSettled
  /\ Cardinality(ObjectKeys(finalResults)) = 0
  /\ error' = ErrorText(AllStepsFailed)
  /\ pc' = "idle"
  /\ outcome' = "failed"
  /\ UNCHANGED << answer, url, isLoading, loadingStage, progress, results,
                  parseResponse, prereq, promises, parseCalls, llmCalls, submits >>

\* variant: the empty merge is not checked and is stored as the report
JoinEmptyStored ==
  /\ pc = "analyzing"
  /\ AllSettled
  /\ Cardinality(ObjectKeys(finalResults)) = 0
  /\ results' = Report(finalResults)
  /\ progress' = Hundred
  /\ isLoading' = FALSE
  /\ pc' = "idle"
  /\ outcome' = "success"
  /\ UNCHANGED << answer, url, loadingStage, error, parseResponse, prereq, promises,
                  parseCalls, llmCalls, submits >>

\* Promise.allSettled resolved and the merge is empty: throw, catch, finally
JoinEmpty ==
  /\ pc = "analyzing"
  /\ AllSettled
  /\ Cardinality(ObjectKeys(finalResults)) = 0
  /\ error' = ErrorText(AllStepsFailed)
  /\ isLoading' = FALSE
  /\ pc' = "idle"
  /\ outcome' = "failed"
  /\ UNCHANGED << answer, url, loadingStage, progress, results, parseResponse, prereq,
                  promises, parseCalls, llmCalls, submits >>

Next ==
  \/ \E u \in Urls : SetUrl(u)
  \/ SubmitEmpty
  \/ SubmitUrl
  \/ \E resp \in ParseResponses : ParseRespond(resp)
  \/ ParseFulfilled
  \/ ParseRejected
  \/ \E key \in StepKeys, resp \in LlmResponses : StepFulfilled(key, resp)
  \/ \E key \in StepKeys, resp \in LlmResponses : StepRejected(key, resp)
  \/ JoinSuccess
  \/ JoinEmpty

Spec == Init /\ [][Next]_vars

TypeOK ==
  /\ url \in Urls
  /\ isLoading \in BOOLEAN
  /\ pc \in {"idle", "parsing", "analyzing"}
  /\ progress.k \in 0..totalSteps
  /\ submits \in 0..MaxSubmits

(* ---------- scheduling ---------- *)
(* The continuation of an await runs once its promise has settled (the     *)
(* event loop drains the microtask queue), and the two remote calls are    *)
(* taken to settle eventually.                                             *)

StepSettles(key) ==
  \E resp \in LlmResponses : StepFulfilled(key, resp) \/ StepRejected(key, resp)

Fairness ==
  /\ WF_vars(\E resp \in ParseResponses : ParseRespond(resp))
  /\ WF_vars(ParseFulfilled)
  /\ WF_vars(ParseRejected)
  /\ \A key \in StepKeys : WF_vars(StepSettles(key))
  /\ WF_vars(JoinSuccess)
  /\ WF_vars(JoinEmpty)

SpecLive == Init /\ [][Next]_vars /\ Fairness

(* ---------- the coercion of one answer, on every answer text ---------- *)

Texts == UNION { [1..n -> Chars] : n \in 0..MaxTextLen }

\* the bodies /llm-call can answer with a success status: a string answer,
\* an object answer, null, no answer, or a body that is JSON null
CoerceAnswers ==
  { LlmResponse(TRUE, TRUE, "answerString", t) : t \in Texts } \cup
  { LlmResponse(TRUE, TRUE, "answerObject", t) : t \in { u \in Texts : IsJsonObject(u) } } \cup
  { LlmResponse(TRUE, TRUE, "answerNull", << >>),
    LlmResponse(TRUE, TRUE, "answerMissing", << >>),
    LlmResponse(TRUE, TRUE, "dataNull", << >>) }

\* the component when the fan-out has just been launched (the state after
\* SetUrl, SubmitUrl, ParseRespond and ParseFulfilled), with the answer that
\* one of the steps is about to receive
InitCoerce ==
  /\ url = "https://example.com/p1"
  /\ isLoading = TRUE
  /\ loadingStage = MapStages(1, ParsingStage)
  /\ progress = Share
  /\ error = Null
  /\ results = NoResults
  /\ pc = "analyzing"
  /\ parseResponse = NoResponse
  /\ prereq = "fulfilled"
  /\ promises = [k \in StepKeys |-> Pending]
  /\ parseCalls = 1
  /\ llmCalls = [k \in StepKeys |-> 1]
  /\ outcome = "running"
  /\ submits = 1
  /\ answer \in CoerceAnswers

\* the first step to settle receives the answer
CoerceStep(key) ==
  /\ \A k \in StepKeys : promises[k].status = "pending"
  /\ (StepFulfilled(key, answer) \/ StepRejected(key, answer))

NextCoerce == \E key \in StepKeys : CoerceStep(key)

SpecCoerce == InitCoerce /\ [][NextCoerce]_vars

(* ====================== claims ====================== *)

\* the steps of the latest run whose promise fulfilled / rejected
FulfilledKeys == { k \in StepKeys : promises[k].status = "fulfilled" }
RejectedKeys  == { k \in StepKeys : promises[k].status = "rejected" }

\* the latest submission was a run and it has terminated
RunEnded == pc = "idle" /\ outcome \in {"success", "failed"}

\* the messages parseWebsite can reject with, as handleAnalyze shows them
ExtractionErrors ==
  { ErrorText(parseWebsite(r).message) :
      r \in { q \in ParseResponses : parseWebsite(q).status = "rejected" } }

\* C1: a request to /llm-call is sent only once parseWebsite has resolved
\* successfully; when parseWebsite rejects, the run ends in failure with the
\* extraction error and no request to /llm-call is sent in that run.
C1_AnalysisOnlyAfterPrerequisite ==
  /\ \A k \in StepKeys :
       (llmCalls[k] > 0 \/ promises[k].status # "none") => prereq = "fulfilled"
  /\ prereq \in {"none", "pending"} => \A k \in StepKeys : llmCalls[k] = 0
  /\ prereq = "rejected" =>
       /\ pc = "idle" /\ ~isLoading
       /\ \A k \in StepKeys : llmCalls[k] = 0 /\ promises[k].status = "none"
       /\ outcome = "failed" => error \in ExtractionErrors /\ ~results.present

C1_Witness ==
  /\ prereq = "rejected"
  /\ outcome = "failed"
  /\ error = "Failed to parse website content."
  /\ parseCalls = 1

\* C2: when at least one step succeeds the run ends successfully and the keys
\* of the stored report are exactly the keys of the steps that succeeded, the
\* report's size being the number of successes.
C2_ReportKeysAreSuccessfulSteps ==
  /\ (RunEnded /\ prereq = "fulfilled" /\ FulfilledKeys # {}) => outcome = "success"
  /\ outcome = "success" =>
       /\ results.present
       /\ ObjectKeys(results.report) = FulfilledKeys
       /\ Cardinality(ObjectKeys(results.report)) = Cardinality(FulfilledKeys)
       /\ \A k \in RejectedKeys : results.report[k] = NoValue
       /\ \A k \in FulfilledKeys : results.report[k] = promises[k].value

C2_Witness ==
  /\ outcome = "success"
  /\ FulfilledKeys = {"foodPreference", "healthGrade"}
  /\ RejectedKeys = {"riskAssessment", "allergenAnalysis", "nutritionFacts"}
  /\ ObjectKeys(results.report) = {"foodPreference", "healthGrade"}

\* C3: when the prerequisite succeeds and all five steps fail, the run ends in
\* failure with the all-steps-failed error and no report is stored; the stored
\* report is always absent or has at least one key.
C3_AllStepsFailedNoEmptyReport ==
  /\ results.present => ObjectKeys(results.report) # {}
  /\ (RunEnded /\ prereq = "fulfilled" /\ RejectedKeys = StepKeys) =>
       /\ outcome = "failed"
       /\ error = AllStepsFailed
       /\ ~results.present

C3_Witness ==
  /\ RunEnded
  /\ prereq = "fulfilled"
  /\ RejectedKeys = StepKeys
  /\ error = AllStepsFailed

\* the double reached by setting one share and adding n - 1 more
RECURSIVE ShareSum(_)
ShareSum(n) == IF n <= 1 THEN Share ELSE FloatAdd(ShareSum(n - 1), Share)

\* C4: within a run the progress values written never decrease, and progress
\* is exactly 100 if and only if the run ends successfully.
C4_ProgressMonotoneAnd100IffSuccess ==
  /\ [][pc # "idle" => Leq(progress, progress')]_vars
  /\ [](outcome = "failed" => progress # Hundred)
  /\ [](outcome = "success" => progress = Hundred)

\* C5 as stated: every settlement of a step, fulfilled or rejected, adds one
\* share to progress, so that progress holds five added shares once all five
\* steps have settled.
C5_IncrementOnEverySettlement ==
  /\ [][(\E k \in StepKeys :
           /\ promises[k].status = "pending"
           /\ promises'[k].status \in {"fulfilled", "rejected"})
        => progress' = FloatAdd(progress, Share)]_vars
  /\ [](pc = "analyzing" /\ AllSettled => progress = ShareSum(totalSteps))

\* C5 amended: a step that fulfils adds one share to progress and a step that
\* rejects leaves progress as it is, so that during the fan-out progress holds
\* the prerequisite's share and one added share per fulfilled step.
C5_IncrementOnSuccessOnly ==
  /\ [][\A k \in StepKeys :
          promises[k].status = "pending" =>
            /\ promises'[k].status = "fulfilled" => progress' = FloatAdd(progress, Share)
            /\ promises'[k].status = "rejected" => progress' = progress]_vars
  /\ [](pc = "analyzing" => progress = ShareSum(1 + Cardinality(FulfilledKeys)))

C5_Witness ==
  /\ pc = "analyzing"
  /\ AllSettled
  /\ Cardinality(RejectedKeys) = 3
  /\ progress = ShareSum(3)

\* C6: submitting an empty URL only sets the invalid-input error: no request
\* is sent to /parse-website or /llm-call and no run is started (isLoading,
\* progress and the stage label keep their values).
C6_EmptyUrlFailsWithoutRun ==
  [][(submits' # submits /\ url = "") =>
       /\ error' = "Please enter a product URL."
       /\ outcome' = "InvalidInput"
       /\ UNCHANGED << isLoading, progress, loadingStage, parseCalls, llmCalls,
                       parseResponse, prereq, promises, pc >>]_vars

C6_Witness ==
  /\ outcome = "InvalidInput"
  /\ error = "Please enter a product URL."
  /\ submits = 1
  /\ parseCalls = 0
  /\ ~isLoading

PendingKeys == { k \in StepKeys : promises[k].status = "pending" }

\* C7: whenever the latest submission has terminated, exactly one of a
\* non-empty report and an error is present; a report and an error are never
\* present together.
C7_ReportXorError ==
  (pc = "idle" /\ outcome # "none") =>
    /\ ~(results.present /\ error # Null)
    /\ (results.present /\ ObjectKeys(results.report) # {}) \/ error # Null

\* C8: after the prerequisite has succeeded the run reaches its terminal
\* outcome only once all five steps have settled; a step that settles, also
\* by failing, leaves its siblings as they are and the run waiting; and while
\* steps are still pending, progress already counts the fulfilled ones.
C8_JoinAllBarrier ==
  /\ [][(prereq = "fulfilled" /\ isLoading /\ ~isLoading') => PendingKeys = {}]_vars
  /\ [](RunEnded /\ prereq = "fulfilled" => PendingKeys = {})
  /\ [][\A k \in StepKeys :
          (promises[k].status = "pending" /\ promises'[k].status # "pending") =>
            /\ \A j \in StepKeys \ {k} : promises'[j] = promises[j]
            /\ pc' = "analyzing" /\ isLoading']_vars
  /\ [](pc = "analyzing" /\ PendingKeys # {} =>
          progress.k = 1 + Cardinality(FulfilledKeys))

C8_Witness ==
  /\ pc = "analyzing"
  /\ isLoading
  /\ RejectedKeys = {"foodPreference"}
  /\ FulfilledKeys = {"healthGrade", "riskAssessment"}
  /\ PendingKeys = {"allergenAnalysis", "nutritionFacts"}
  /\ progress = ShareSum(3)

\* C9: a step's own failure never becomes the run's error: a failed run shows
\* the extraction error when parseWebsite rejected and the all-steps-failed
\* error when every step rejected, and a run with at least one fulfilled step
\* shows no error although other steps rejected.
C9_StepFailuresNeverSurface ==
  /\ outcome = "running" => error = Null
  /\ outcome = "success" => error = Null
  /\ outcome = "failed" => prereq \in {"fulfilled", "rejected"}
  /\ (outcome = "failed" /\ prereq = "rejected") => error \in ExtractionErrors
  /\ (outcome = "failed" /\ prereq = "fulfilled") =>
       error = AllStepsFailed /\ FulfilledKeys = {}
  /\ (RunEnded /\ FulfilledKeys # {}) => error = Null

C9_Witness ==
  /\ outcome = "success"
  /\ error = Null
  /\ promises["foodPreference"].reason = InvalidJsonFormat
  /\ promises["healthGrade"].reason = "API call failed: "
  /\ FulfilledKeys = {"riskAssessment", "allergenAnalysis", "nutritionFacts"}

\* parseWebsite consumes the answer of /parse-website in this step
ParseSettles == parseResponse # NoResponse /\ parseResponse' = NoResponse

FanOutLaunched ==
  /\ prereq' = "fulfilled"
  /\ progress' = Share
  /\ pc' = "analyzing"
  /\ \A k \in StepKeys : promises'[k].status = "pending" /\ llmCalls'[k] = 1

\* C10 as stated: an answer with a success status makes the prerequisite
\* succeed whatever its body is, a body that is not JSON included: progress
\* becomes one share and the fan-out is launched.
C10_OkStatusAlwaysSucceeds ==
  [][(ParseSettles /\ parseResponse.net /\ parseResponse.ok) => FanOutLaunched]_vars

\* C10 amended: an answer with a success status and a body that is valid JSON
\* makes the prerequisite succeed whatever that JSON is: progress becomes one
\* share and the fan-out is launched; with a success status and a body that is
\* not valid JSON the prerequisite fails, the run ends with an error and no
\* request is sent to /llm-call.
C10_OkStatusWithJsonBodySucceeds ==
  [][(ParseSettles /\ parseResponse.net /\ parseResponse.ok) =>
       IF parseResponse.body # "notJson"
         THEN FanOutLaunched
         ELSE /\ prereq' = "rejected"
              /\ pc' = "idle" /\ ~isLoading'
              /\ outcome' = "failed"
              /\ error' # Null
              /\ progress' = Zero
              /\ \A k \in StepKeys : llmCalls'[k] = 0]_vars

C10_Witness ==
  /\ pc = "analyzing"
  /\ prereq = "fulfilled"
  /\ progress = Share
  /\ PendingKeys = StepKeys
  /\ \A k \in StepKeys : llmCalls[k] = 1

(* ---------- coercion claims, under SpecCoerce ---------- *)

SettledKeys == FulfilledKeys \cup RejectedKeys

\* text[i..j] runs from a "{" to a "}" and is a well-formed JSON object
IsObjectAt(text, i, j) ==
  /\ i < j
  /\ text[i] = "{"
  /\ text[j] = "}"
  /\ IsJsonObject(StripWs(SubSeq(text, i, j)))

\* text[i..j] is the one JSON object of the text: every well-formed object
\* in the text lies within it
IsOnlyObjectAt(text, i, j) ==
  /\ IsObjectAt(text, i, j)
  /\ \A a, b \in 1..Len(text) : IsObjectAt(text, a, b) => (i <= a /\ b <= j)

\* C11 as stated: a text with exactly one well-formed JSON object, surrounded
\* by any prose (braces included), is coerced to the value of parsing that
\* object alone; an answer that is already an object is returned unchanged.
C11_CoercionRoundTrip ==
  \A key \in SettledKeys :
    /\ answer.kind = "answerString" =>
         \A i, j \in 1..Len(answer.text) :
           IsOnlyObjectAt(answer.text, i, j) =>
             promises[key] = Fulfilled(JSONParse(SubSeq(answer.text, i, j)).value)
    /\ answer.kind = "answerObject" =>
         promises[key] = Fulfilled(ObjectValue(answer.text))

\* C11 amended: the same, for prose that has no "{" before the object and no
\* "}" after it.
C11_CoercionRoundTripPlainProse ==
  \A key \in SettledKeys :
    /\ answer.kind = "answerString" =>
         \A i, j \in 1..Len(answer.text) :
           ( /\ IsOnlyObjectAt(answer.text, i, j)
             /\ \A a \in 1..(i - 1) : answer.text[a] # "{"
             /\ \A b \in (j + 1)..Len(answer.text) : answer.text[b] # "}" ) =>
             promises[key] = Fulfilled(JSONParse(SubSeq(answer.text, i, j)).value)
    /\ answer.kind = "answerObject" =>
         promises[key] = Fulfilled(ObjectValue(answer.text))

C11_Witness ==
  /\ answer.kind = "answerString"
  /\ answer.text = << "}", "{", " ", "}", "p" >>
  /\ promises["healthGrade"] = Fulfilled(ObjectValue(<< "{", "}" >>))

\* the positions of the braces of a text
OpenBraces(text)  == { i \in 1..Len(text) : text[i] = "{" }
CloseBraces(text) == { i \in 1..Len(text) : text[i] = "}" }
HasBracePair(text) ==
  \E i \in OpenBraces(text), j \in CloseBraces(text) : i < j
\* the substring from the leftmost "{" to the rightmost "}"
OuterBraces(text) ==
  SubSeq(text,
         CHOOSE i \in OpenBraces(text) : \A a \in OpenBraces(text) : i <= a,
         CHOOSE j \in CloseBraces(text) : \A b \in CloseBraces(text) : b <= j)

\* C12: a text with no substring from a "{" to a later "}", or whose substring
\* from the leftmost "{" to the rightmost "}" is not well-formed JSON, makes
\* the step reject with the malformed-response error and yield no value; the
\* run goes on unharmed: no error, the siblings still pending.
C12_CoercionFailure ==
  \A key \in SettledKeys :
    ( /\ answer.kind = "answerString"
      /\ \/ ~HasBracePair(answer.text)
         \/ ~IsJsonValue(StripWs(OuterBraces(answer.text))) ) =>
      /\ promises[key] = Rejected(InvalidJsonFormat)
      /\ error = Null /\ ~results.present
      /\ pc = "analyzing" /\ isLoading
      /\ progress = Share
      /\ \A j \in StepKeys \ {key} : promises[j] = Pending

C12_Witness ==
  /\ answer.kind = "answerString"
  /\ answer.text = << "p", "{", "k", "}", "}" >>
  /\ promises["riskAssessment"] = Rejected(InvalidJsonFormat)

(* ---------- pipeline claims, continued ---------- *)

\* C13: when the prerequisite call and every issued analysis call settle, a
\* run that was started reaches a terminal outcome, a stored report or an
\* error, and isLoading becomes false; the handler waits for nothing else:
\* its continuation can run as soon as the awaited calls have settled.
C13_Termination ==
  /\ outcome = "running" ~>
       (RunEnded /\ ~isLoading /\ (results.present \/ error # Null))
  /\ isLoading ~> ~isLoading
  /\ [](pc = "parsing" /\ parseResponse # NoResponse =>
          ENABLED (ParseFulfilled \/ ParseRejected))
  /\ [](pc = "analyzing" /\ PendingKeys = {} => ENABLED (JoinSuccess \/ JoinEmpty))

C13_Witness ==
  /\ RunEnded
  /\ ~isLoading
  /\ outcome = "failed"
  /\ error = AllStepsFailed
  /\ submits = 1

\* C14: a run sends exactly one request to /parse-website and at most one
\* request to /llm-call per catalog step; once the prerequisite has succeeded
\* every step has been sent exactly once, whichever steps fail.
C14_NoRetries ==
  /\ [](prereq # "none" => parseCalls = 1)
  /\ [](\A k \in StepKeys : llmCalls[k] <= 1)
  /\ [](prereq = "fulfilled" => \A k \in StepKeys : llmCalls[k] = 1)
  /\ [][(prereq' = prereq /\ submits' = submits) =>
          (parseCalls' = parseCalls /\ llmCalls' = llmCalls)]_vars

C14_Witness ==
  /\ RunEnded
  /\ parseCalls = 1
  /\ \A k \in StepKeys : llmCalls[k] = 1
  /\ Cardinality(RejectedKeys) = 4
  /\ promises["allergenAnalysis"].reason = "Failed to fetch"

\* C15: counted in exact shares of 100 / (stepCount + 1), progress always lies
\* in 0..100: it is 0 when a run starts, exactly one share after the
\* prerequisite has succeeded and before any step settles, and never more than
\* 100 however many steps settle and in whatever order.
C15_ProgressRange ==
  /\ progress.k \in 0..totalSteps
  /\ pc = "parsing" => progress = Zero
  /\ (pc = "analyzing" /\ PendingKeys = StepKeys) => progress = Share
  /\ pc = "analyzing" => progress.k = 1 + Cardinality(FulfilledKeys)
  /\ progress.k = totalSteps =>
       (outcome = "success" \/ FulfilledKeys = StepKeys \/ results.present)

C15_Witness ==
  /\ pc = "analyzing"
  /\ FulfilledKeys = StepKeys
  /\ progress.k = totalSteps
  /\ isLoading

\* C16: runs never overlap: handleAnalyze is entered only while no run is in
\* progress (isLoading is false, which disables the form), and a run in
\* progress always has isLoading set, so the state is written by one run at a
\* time.
C16_RunsNeverOverlap ==
  /\ [](pc # "idle" <=> isLoading)
  /\ [][submits' # submits => (~isLoading /\ pc = "idle")]_vars
  /\ [][(isLoading /\ url' # url) => FALSE]_vars

C16_Witness ==
  /\ submits = 2
  /\ outcome = "running"
  /\ pc = "analyzing"
  /\ isLoading
  /\ RejectedKeys = {"riskAssessment"}

\* C17: isLoading is true exactly while a run is between its start and its
\* terminal outcome; every terminal path clears it; and while it is true both
\* results and error are null, the previous run's report and error having
\* been cleared before the request to /parse-website.
C17_LoadingBracketsRun ==
  /\ isLoading <=> outcome = "running"
  /\ RunEnded => ~isLoading
  /\ isLoading => (~results.present /\ error = Null /\ parseCalls = 1)
  /\ outcome = "InvalidInput" => ~isLoading

C17_Witness ==
  /\ submits = 2
  /\ isLoading
  /\ pc = "parsing"
  /\ parseResponse # NoResponse
  /\ results = NoResults
  /\ error = Null

LastStage == analysisSteps[Len(analysisSteps)].stage

\* C18: the stage label does not depend on the order in which the steps
\* complete: the five labels are written in catalog order when the fan-out is
\* launched, so from then until the run ends (and until the next run starts)
\* the label is the last catalog step's, and during the prerequisite it is
\* the prerequisite's label; no settlement of a step changes it.
C18_StageLabelFixedAtLaunch ==
  /\ [](pc = "parsing" => loadingStage = ParsingStage)
  /\ [](pc = "analyzing" => loadingStage = LastStage)
  /\ []((RunEnded /\ prereq = "fulfilled") => loadingStage = LastStage)
  /\ []((RunEnded /\ prereq = "rejected") => loadingStage = ParsingStage)
  /\ [][pc = "analyzing" => loadingStage' = loadingStage]_vars

C18_Witness ==
  /\ pc = "analyzing"
  /\ loadingStage = "6/6 - Extracting nutrition facts..."
  /\ FulfilledKeys = {"foodPreference"}
  /\ PendingKeys = StepKeys \ {"foodPreference"}

\* C19: every value stored in the report under a step key is a non-null
\* structured value: a step whose answer is null counts as failed and its key
\* is absent, so no run ends successfully with a report of null entries only.
C19_ReportValuesAreObjects ==
  results.present =>
    /\ \A k \in ObjectKeys(results.report) : results.report[k].type = "object"
    /\ \A k \in StepKeys :
         promises[k].status = "fulfilled" => promises[k].value.type = "object"

====
